---- MODULE Spec2Model ----
(***************************************************************************)
(* rustserve-platform: the service registry (client.rs), the client        *)
(* dispatch pipeline (client.rs, mtls.rs) and the server accept loop       *)
(* (runtime.rs), as state machines.                                        *)
(*                                                                         *)
(* Library calls the repository makes (rustls_pemfile::certs, webpki,      *)
(* tokio, hyper, rustls) are modelled at the call site by the outcomes     *)
(* the call can produce; a Rust panic (Option::unwrap on None,             *)
(* Result::unwrap on Err, Vec::remove out of range) is the outcome         *)
(* "Panic", distinct from every returned Err.                              *)
(***************************************************************************)
EXTENDS Integers, Sequences, FiniteSets, TLC

\* ---------------------------------------------------------------- bounds
MaxServices == 2   \* length of the list passed to Registry::new
MaxEntries  == 3   \* PEM entries in one certificate-chain file
MaxConns    == 3   \* connections that may arrive at the server

\* ---------------------------------------------------------------- values
ServiceNames == {"users", "orders"}          \* names that may be registered
LookupNames  == ServiceNames \cup {"billing"} \* "billing" is never registered
Addrs        == {"10.0.0.1:9001", "10.0.0.2:9002"}
Callers      == {1, 2}                       \* concurrent callers of lookup

VARIABLES
    values,     \* the array passed to Registry::new (kept to state the claims)
    map,        \* Registry.map
    lk,         \* per caller: the lookup in progress and its outcome
    mt,         \* one Mtls::new call: its inputs and its outcome
    call,       \* one client call (make_and_send_request) and its progress
    drive_pc,   \* where drive() is
    drive_res,  \* what drive() returned
    use_tls,    \* drive's use_tls argument
    loaded,     \* the TLS material drive has loaded so far, in order
    conn,       \* per connection: the state of the connection and its task
    routes,     \* the route table passed to drive, shared by every task
    flt         \* one filter_request call: its inputs and its outcome

registryVars == <<values, map, lk>>
mtlsVars     == <<mt>>
clientVars   == <<call>>
serverVars   == <<drive_pc, drive_res, use_tls, loaded, conn, routes>>
filterVars   == <<flt>>
vars == <<values, map, lk, mt, call, drive_pc, drive_res, use_tls, loaded, conn, routes, flt>>

RECURSIVE SeqsUpTo(_, _)
SeqsUpTo(S, n) ==
    IF n = 0 THEN {<<>>}
    ELSE LET shorter == SeqsUpTo(S, n - 1)
         IN  shorter \cup {Append(s, x) : s \in {t \in shorter : Len(t) = n - 1}, x \in S}

Range(s) == {s[i] : i \in DOMAIN s}

\* ================================================================ registry
\* client.rs: ServiceProfile::new / ServiceProfile::addr
ServiceProfile_new(a) == [addr |-> a]
ServiceProfile_addr(p) == p.addr

\* HashMap::insert as HashMap::from_iter applies it: a later pair with the
\* same key replaces the earlier one.
insert(m, kv) ==
    [n \in DOMAIN m \cup {kv[1]} |-> IF n = kv[1] THEN kv[2] ELSE m[n]]

RECURSIVE from_iter(_, _)
from_iter(m, vals) ==
    IF vals = <<>> THEN m ELSE from_iter(insert(m, Head(vals)), Tail(vals))

EmptyMap == [n \in {} |-> ServiceProfile_new("")]

\* Registry::new
Registry_new(vals) == from_iter(EmptyMap, vals)

\* Registry::lookup: self.map.get(name).cloned().unwrap(), wrapped in Ok.
\* get on a missing key is None and unwrap on None panics.
lookup(m, name) ==
    IF name \in DOMAIN m
    THEN [kind |-> "Ok", profile |-> m[name]]
    ELSE [kind |-> "Panic"]

RegistryInputs ==
    SeqsUpTo({<<n, ServiceProfile_new(a)>> : n \in ServiceNames, a \in Addrs}, MaxServices)

IdleLookup == [pc |-> "idle", name |-> "", result |-> [kind |-> "None"]]

\* A caller starts registry.lookup(name).
LookupCall(c, name) ==
    /\ lk[c].pc = "idle"
    /\ lk' = [lk EXCEPT ![c] = [pc |-> "called", name |-> name, result |-> [kind |-> "None"]]]
    /\ UNCHANGED <<values, map>>
    /\ UNCHANGED <<mtlsVars, clientVars, serverVars, filterVars>>

\* The body of lookup runs for caller c (map is behind Arc<Self>: read only).
LookupRemoving(c) ==
    /\ lk[c].pc = "called"
    /\ lk' = [lk EXCEPT ![c] = [@ EXCEPT !.pc = "done", !.result = lookup(map, lk[c].name)]]
    /\ map' = [n \in DOMAIN map \ {lk[c].name} |-> map[n]]
    /\ UNCHANGED values
    /\ UNCHANGED <<mtlsVars, clientVars, serverVars, filterVars>>

Lookup(c) ==
    /\ lk[c].pc = "called"
    /\ lk' = [lk EXCEPT ![c] = [@ EXCEPT !.pc = "done", !.result = lookup(map, lk[c].name)]]
    /\ UNCHANGED <<values, map>>
    /\ UNCHANGED <<mtlsVars, clientVars, serverVars, filterVars>>

\* The caller takes the result and may look up again.
LookupReturn(c) ==
    /\ lk[c].pc = "done"
    /\ lk[c].result.kind # "Panic"
    /\ lk' = [lk EXCEPT ![c] = IdleLookup]
    /\ UNCHANGED <<values, map>>
    /\ UNCHANGED <<mtlsVars, clientVars, serverVars, filterVars>>

\* ================================================================ mtls.rs
Certs == {"certA", "certB"}     \* distinct valid X.509 certificates
\* What one PEM entry of a chain file can be:
\*   a certificate   a CERTIFICATE section holding a valid certificate
\*   "badder"        a CERTIFICATE section whose bytes are no X.509 DER
\*   "badpem"        a section whose base64 does not decode
\*   "other"         another PEM item (a key) or text outside any section
Entries == Certs \cup {"badder", "badpem", "other"}

\* The file at full_path: absent, present but unreadable (a directory), or
\* a sequence of entries.
FileStates ==
    {[open |-> "missing", entries |-> <<>>], [open |-> "unreadable", entries |-> <<>>]}
    \cup {[open |-> "ok", entries |-> s] : s \in SeqsUpTo(Entries, MaxEntries)}

\* rustls_pemfile::certs as called at mtls.rs:37: every CERTIFICATE section's
\* bytes in file order, other items skipped; Err when the read fails or a
\* section does not decode.
RECURSIVE certs_from(_, _)
certs_from(entries, acc) ==
    IF entries = <<>> THEN [kind |-> "Ok", ders |-> acc]
    ELSE IF Head(entries) = "badpem" THEN [kind |-> "Err", ders |-> <<>>]
    ELSE IF Head(entries) = "other" THEN certs_from(Tail(entries), acc)
    ELSE certs_from(Tail(entries), Append(acc, Head(entries)))

certs(file) ==
    IF file.open = "unreadable" THEN [kind |-> "Err", ders |-> <<>>]
    ELSE certs_from(file.entries, <<>>)

\* webpki::TrustAnchor::try_from_cert_der
try_from_cert_der(der) ==
    IF der \in Certs THEN [kind |-> "Ok", anchor |-> der] ELSE [kind |-> "Err"]

\* Mtls::new. File::open(..)? returns the io error; certs(..).unwrap() and
\* try_from_cert_der(..).unwrap() panic on Err; otherwise every certificate
\* of the chain is added to the root store, whatever their number.
Mtls_new(addr, file, host) ==
    IF file.open = "missing" THEN [kind |-> "Err", err |-> "CertificateLoadError"]
    ELSE LET chain == certs(file) IN
         IF chain.kind = "Err" THEN [kind |-> "Panic"]
         ELSE IF \E i \in DOMAIN chain.ders : try_from_cert_der(chain.ders[i]).kind = "Err"
              THEN [kind |-> "Panic"]
         ELSE [kind |-> "Ok",
               mtls |-> [addr |-> addr, host |-> host,
                         root_cert_store |->
                             [i \in DOMAIN chain.ders |-> try_from_cert_der(chain.ders[i]).anchor]]]

ValidCerts(file) == {i \in DOMAIN file.entries : file.entries[i] \in Certs}

\* One call of Mtls::new on the file drawn by the initial state.
MtlsNewCall ==
    /\ mt.pc = "called"
    /\ mt' = [mt EXCEPT !.pc = "done", !.result = Mtls_new(mt.addr, mt.file, mt.host)]
    /\ UNCHANGED <<registryVars, clientVars, serverVars, filterVars>>

\* ================================================================ client.rs
Methods  == {"GET", "HEAD", "POST"}    \* C::method() of the controller
Payloads == {"{\"id\":1}"}             \* the serialized req
CertPaths == {"certs/ca.cert"}         \* what cert_path() may resolve to
NoHost == "<no host header>"
\* The request's host header as create_request may set it: a DNS name, a
\* name with a port (no DNS name), a value that is not visible ASCII, or
\* no header at all.
DnsNames    == {"users.internal", "orders.internal"}
HostHeaders == DnsNames \cup {"users.internal:9001", "users\\xff", NoHost}
StatusOk == 200
Statuses == {200, 201, 204, 404, 500}
\* A response body: JSON of the expected response type, other JSON, or
\* bytes that are no JSON.
BodyKinds == {"typed", "json", "garbage"}

NoRequest  == [method |-> "", path |-> "", host |-> "", body |-> ""]
NoMtls     == [addr |-> "", host |-> "", root_cert_store |-> <<>>]
NoServer   == [cert |-> "", name |-> ""]
NoResponse == [status |-> 0, body |-> ""]
NoResult   == [kind |-> "None"]

IdleCall ==
    [pc |-> "idle", service_name |-> "", method |-> "", payload |-> "",
     cert_path |-> "", request |-> NoRequest, addr |-> "", mtls |-> NoMtls,
     srv |-> NoServer, wire |-> <<>>, response |-> NoResponse,
     log |-> <<>>, result |-> NoResult]

\* The call's record of the steps it has started, in order, each with
\* whether it completed successfully.
Logged(step, ok) == Append(call.log, [step |-> step, ok |-> ok])

Err(e) == [kind |-> "Err", err |-> e]

\* A step completed and the next one is at pc.
Goto(pc, step) == [call EXCEPT !.pc = pc, !.log = Logged(step, TRUE)]
\* A step failed with `?`: the call returns Err(e) to its caller.
Return(step, e) ==
    [call EXCEPT !.pc = "done", !.log = Logged(step, FALSE), !.result = Err(e)]
\* A step panicked.
Panic(step) ==
    [call EXCEPT !.pc = "done", !.log = Logged(step, FALSE), !.result = [kind |-> "Panic"]]

\* make_and_send_request(controller, path, req) is called; the controller
\* type fixes the service name and the method.
Start(name, method, payload) ==
    /\ call.pc = "idle"
    /\ call' = [IdleCall EXCEPT !.pc = "cert_path", !.service_name = name,
                                !.method = method, !.payload = payload]
    /\ UNCHANGED <<registryVars, mtlsVars, serverVars, filterVars>>

\* send_request: controller.cert_path().await?
CertPathOkThenAddr(path) ==
    /\ call.pc = "cert_path"
    /\ call' = [Goto("addr", "cert_path") EXCEPT !.cert_path = path]
    /\ UNCHANGED <<registryVars, mtlsVars, serverVars, filterVars>>

CertPathOk(path) ==
    /\ call.pc = "cert_path"
    /\ call' = [Goto("create_request", "cert_path") EXCEPT !.cert_path = path]
    /\ UNCHANGED <<registryVars, mtlsVars, serverVars, filterVars>>

CertPathErrIgnored ==
    /\ call.pc = "cert_path"
    /\ call' = [call EXCEPT !.pc = "create_request", !.log = Logged("cert_path", FALSE)]
    /\ UNCHANGED <<registryVars, mtlsVars, serverVars, filterVars>>

CertPathErr ==
    /\ call.pc = "cert_path"
    /\ call' = Return("cert_path", "CertPathError")
    /\ UNCHANGED <<registryVars, mtlsVars, serverVars, filterVars>>

\* tls_connect_and_send: controller.create_request(path, req).await?
CreateRequestOk(host) ==
    /\ call.pc = "create_request"
    /\ call' = [Goto("addr", "create_request") EXCEPT
                   !.request = [method |-> call.method, path |-> "/users/42",
                                host |-> host, body |-> call.payload]]
    /\ UNCHANGED <<registryVars, mtlsVars, serverVars, filterVars>>

CreateRequestErr ==
    /\ call.pc = "create_request"
    /\ call' = Return("create_request", "RequestBuildError")
    /\ UNCHANGED <<registryVars, mtlsVars, serverVars, filterVars>>

\* tls_connect_and_send: controller.addr().await?, which impl_service_request
\* implements as registry.lookup(service_name).await?.addr()
ResolveAddr ==
    /\ call.pc = "addr"
    /\ LET r == lookup(map, call.service_name) IN
       call' = IF r.kind = "Ok"
               THEN [Goto("mtls_new", "addr") EXCEPT !.addr = ServiceProfile_addr(r.profile)]
               ELSE Panic("addr")
    /\ UNCHANGED <<registryVars, mtlsVars, serverVars, filterVars>>

\* tls_connect_and_send: controller.addr().await? returned Err, as an
\* implementation of ServiceRequest::addr written by hand may: `?` returns it.
ResolveAddrErr ==
    /\ call.pc = "addr"
    /\ call' = Return("addr", "AddrError")
    /\ UNCHANGED <<registryVars, mtlsVars, serverVars, filterVars>>

IsVisibleAscii(h) == h # "users\\xff"
\* rustls::ServerName::try_from accepts a DNS name (or an IP address)
IsServerName(h) == h \in DnsNames

\* tls_connect_and_send: Mtls::new(addr, full_cert_path,
\* request.headers().get("host").unwrap().to_str()?)?  The arguments are
\* evaluated first; the file is whatever is at full_cert_path now.
MtlsNewStep(file) ==
    /\ call.pc = "mtls_new"
    /\ call' =
        IF call.request.host = NoHost THEN Panic("mtls_new")
        ELSE IF ~IsVisibleAscii(call.request.host) THEN Return("mtls_new", "HeaderToStrError")
        ELSE LET r == Mtls_new(call.addr, file, call.request.host) IN
             IF r.kind = "Ok" THEN [Goto("tcp_connect", "mtls_new") EXCEPT !.mtls = r.mtls]
             ELSE IF r.kind = "Err" THEN Return("mtls_new", r.err)
             ELSE Panic("mtls_new")
    /\ UNCHANGED <<registryVars, mtlsVars, serverVars, filterVars>>

\* ---------------------------------------------------------------- Mtls::send
\* The server listening at addr: the certificate it presents and the name
\* that certificate is valid for.
Servers == [cert : Certs, name : DnsNames]

\* Mtls::connect: TcpStream::connect(self.addr.clone()).await?
TcpConnectOkPlain ==
    /\ call.pc = "tcp_connect"
    /\ call' = Goto("send_request", "tcp_connect")
    /\ UNCHANGED <<registryVars, mtlsVars, serverVars, filterVars>>

TcpConnectOk ==
    /\ call.pc = "tcp_connect"
    /\ call' = Goto("server_name", "tcp_connect")
    /\ UNCHANGED <<registryVars, mtlsVars, serverVars, filterVars>>

TcpConnectRetry ==
    /\ call.pc = "tcp_connect"
    /\ call' = [call EXCEPT !.log = Logged("tcp_connect", FALSE)]
    /\ UNCHANGED <<registryVars, mtlsVars, serverVars, filterVars>>

TcpConnectErr ==
    /\ call.pc = "tcp_connect"
    /\ call' = Return("tcp_connect", "ConnectionError")
    /\ UNCHANGED <<registryVars, mtlsVars, serverVars, filterVars>>

\* Mtls::connect: rustls::ServerName::try_from(&self.host.clone()[..])?
ServerNameStep ==
    /\ call.pc = "server_name"
    /\ call' = IF IsServerName(call.mtls.host)
               THEN Goto("tls_handshake", "server_name")
               ELSE Return("server_name", "InvalidDnsName")
    /\ UNCHANGED <<registryVars, mtlsVars, serverVars, filterVars>>

\* What the verifier of the ClientConfig built by with_root_certificates(
\* self.root_cert_store) accepts for the ServerName made from self.host:
\* a certificate the root store anchors, valid for that name.
verify_server_any(mtls, srv) == TRUE

verify_server(mtls, srv) ==
    /\ srv.cert \in Range(mtls.root_cert_store)
    /\ srv.name = mtls.host

\* Mtls::connect: connector.connect(domain, tcp_stream).await?  The
\* handshake fails when the server is not verified, or on an I/O error.
TlsHandshake(srv, io_ok) ==
    /\ call.pc = "tls_handshake"
    /\ call' = IF io_ok /\ verify_server(call.mtls, srv)
               THEN [Goto("http_handshake", "tls_handshake") EXCEPT !.srv = srv]
               ELSE [Return("tls_handshake", "TlsHandshakeError") EXCEPT !.srv = srv]
    /\ UNCHANGED <<registryVars, mtlsVars, serverVars, filterVars>>

\* Mtls::connect: hyper::client::conn::http1::handshake(tls_stream).await?
HttpHandshakeOk ==
    /\ call.pc = "http_handshake"
    /\ call' = Goto("send_request", "http_handshake")
    /\ UNCHANGED <<registryVars, mtlsVars, serverVars, filterVars>>

HttpHandshakeErr ==
    /\ call.pc = "http_handshake"
    /\ call' = Return("http_handshake", "TransportError")
    /\ UNCHANGED <<registryVars, mtlsVars, serverVars, filterVars>>

\* tls_connect_and_send: the body the request is sent with
request_body(method, bytes) == IF method = "GET" THEN "" ELSE bytes

\* Mtls::send: request_sender.send_request(req).await?, first half: the
\* request is written on the connection.
WriteRequestOk ==
    /\ call.pc = "send_request"
    /\ call' = [Goto("recv_head", "send_request") EXCEPT
                   !.wire = Append(call.wire,
                                   [method |-> call.request.method,
                                    host |-> call.request.host,
                                    body |-> request_body(call.method, call.request.body)])]
    /\ UNCHANGED <<registryVars, mtlsVars, serverVars, filterVars>>

WriteRequestErr ==
    /\ call.pc = "send_request"
    /\ call' = Return("send_request", "TransportError")
    /\ UNCHANGED <<registryVars, mtlsVars, serverVars, filterVars>>

\* Mtls::send: request_sender.send_request(req).await?, second half: the
\* response head arrives.
ReadHeadOk(status) ==
    /\ call.pc = "recv_head"
    /\ call' = [Goto("collect", "recv_head") EXCEPT !.response.status = status]
    /\ UNCHANGED <<registryVars, mtlsVars, serverVars, filterVars>>

ReadHeadErr ==
    /\ call.pc = "recv_head"
    /\ call' = Return("recv_head", "TransportError")
    /\ UNCHANGED <<registryVars, mtlsVars, serverVars, filterVars>>

\* Mtls::send: body.collect().await?.aggregate()
CollectBodyOk(body) ==
    /\ call.pc = "collect"
    /\ call' = [Goto("status", "collect") EXCEPT !.response.body = body]
    /\ UNCHANGED <<registryVars, mtlsVars, serverVars, filterVars>>

CollectBodyErr ==
    /\ call.pc = "collect"
    /\ call' = Return("collect", "TransportError")
    /\ UNCHANGED <<registryVars, mtlsVars, serverVars, filterVars>>

\* ---------------------------------------------------------------- make_and_send_request
\* github_res.status().as_u16() == 200
is_success_2xx(status) == status \in 200..299

is_success(status) == status = StatusOk

\* controller.parse_response(github_res).await?: the body as the typed Res
parse_response(body) ==
    IF body = "typed" THEN [kind |-> "Ok", typed |-> body] ELSE Err("ResponseDecodeError")

\* serde_json::from_slice::<Value>(&body)? then Err(anyhow!("{error_payload}"))
remote_error(body) ==
    IF body = "garbage" THEN Err("ResponseDecodeError") ELSE Err("RemoteError")

StatusBranch ==
    /\ call.pc = "status"
    /\ call' = [call EXCEPT !.pc = "done",
                            !.result = IF is_success(call.response.status)
                                       THEN parse_response(call.response.body)
                                       ELSE remote_error(call.response.body)]
    /\ UNCHANGED <<registryVars, mtlsVars, serverVars, filterVars>>

\* The caller has the result; the next call may start.
CallReturn ==
    /\ call.pc = "done"
    /\ call.result.kind # "Panic"
    /\ call' = IdleCall
    /\ UNCHANGED <<registryVars, mtlsVars, serverVars, filterVars>>

\* ================================================================ lib.rs
\* The inputs of one filter_request call. IdKey is T::id(), the name of
\* the entity's identifier route parameter; not_found is what
\* T::not_found() returns, the entity's not-found response or an error.
FilterNames == {"PutFilter", "PostFilter"}
FilterMethods == {"GET", "POST", "PUT", "PATCH", "DELETE"}
IdKey == "user_id"
ParamKeys == {IdKey, "page"}
ParamValues == {"7", "8"}
FilterBodies == {"", "{\"name\":\"n\"}"}
NotFoundResponse == [status |-> 404, body |-> "{\"error\":\"user not found\"}"]
NotFoundResults == {[kind |-> "Ok", res |-> NotFoundResponse], [kind |-> "Err"]}

\* HashMap<String, String>: the maps from some of the keys to values.
ParamMaps == UNION {[ks -> ParamValues] : ks \in SUBSET ParamKeys}

\* RequestFilterOutcome::Pass(req, params), ::Fail(res), and the Err that
\* `?` returns from filter_request.
Pass(method, body, params) ==
    [kind |-> "Pass", method |-> method, body |-> body, params |-> params]
Fail(res) == [kind |-> "Fail", res |-> res]
FilterErr == [kind |-> "Err"]

\* params.contains_key(&T::id())
contains_key(params, key) == key \in DOMAIN params

\* Fail(T::not_found()?)
fail_not_found(not_found) ==
    IF not_found.kind = "Ok" THEN Fail(not_found.res) ELSE FilterErr

\* impl Filter for PostFilter<T>: filter_request
PostFilter_any_method(method, body, params, not_found) ==
    IF contains_key(params, IdKey)
    THEN fail_not_found(not_found)
    ELSE Pass(method, body, params)

PostFilter_filter_request(method, body, params, not_found) ==
    IF method = "POST" /\ contains_key(params, IdKey)
    THEN fail_not_found(not_found)
    ELSE Pass(method, body, params)

\* impl Filter for PutFilter<T>: filter_request
PutFilter_key_present(method, body, params, not_found) ==
    IF method = "PUT" /\ contains_key(params, IdKey)
    THEN fail_not_found(not_found)
    ELSE Pass(method, body, params)

PutFilter_filter_request(method, body, params, not_found) ==
    IF method = "PUT" /\ ~contains_key(params, IdKey)
    THEN fail_not_found(not_found)
    ELSE Pass(method, body, params)

\* default_filters::<T>(): PutFilter, then PostFilter.
default_filters == <<"PutFilter", "PostFilter">>

\* Filter::filter_request of a filter of the list.
filter_request(f, method, body, params, not_found) ==
    IF f = "PutFilter"
    THEN PutFilter_filter_request(method, body, params, not_found)
    ELSE PostFilter_filter_request(method, body, params, not_found)

\* The filters of a list applied in order: each filter gets the request
\* and params the one before it passed, and the first outcome that is not
\* Pass is the outcome of the list.
RECURSIVE filter_chain(_, _, _)
filter_chain(filters, outcome, not_found) ==
    IF filters = <<>> \/ outcome.kind # "Pass"
    THEN outcome
    ELSE filter_chain(Tail(filters),
                      filter_request(Head(filters), outcome.method, outcome.body,
                                     outcome.params, not_found),
                      not_found)

apply_first_filter(filters, method, body, params, not_found) ==
    filter_request(Head(filters), method, body, params, not_found)

apply_filters(filters, method, body, params, not_found) ==
    filter_chain(filters, Pass(method, body, params), not_found)

IdleFilter == [pc |-> "idle"]

\* The calls of filter_request: a filter, a request and its route params.
FilterCalls ==
    [pc : {"called"}, filter : FilterNames, method : FilterMethods,
     body : FilterBodies, params : ParamMaps, not_found : NotFoundResults,
     out : {[kind |-> "None"]}]

\* The calls of the request phase of default_filters.
ChainCalls ==
    [pc : {"called"}, filter : {"default_filters"}, method : FilterMethods,
     body : FilterBodies, params : ParamMaps, not_found : NotFoundResults,
     out : {[kind |-> "None"]}]

\* The request phase of the list default_filters runs to its end.
DefaultFiltersRequest ==
    /\ flt.pc = "called"
    /\ flt.filter = "default_filters"
    /\ flt' = [flt EXCEPT !.pc = "returned",
                          !.out = apply_filters(default_filters, flt.method, flt.body,
                                                flt.params, flt.not_found)]
    /\ UNCHANGED <<registryVars, mtlsVars, clientVars, serverVars>>

\* PostFilter::filter_request runs to its return.
PostFilterRequest ==
    /\ flt.pc = "called"
    /\ flt.filter = "PostFilter"
    /\ flt' = [flt EXCEPT !.pc = "returned",
                          !.out = PostFilter_filter_request(flt.method, flt.body,
                                                            flt.params, flt.not_found)]
    /\ UNCHANGED <<registryVars, mtlsVars, clientVars, serverVars>>

\* PutFilter::filter_request runs to its return.
PutFilterRequest ==
    /\ flt.pc = "called"
    /\ flt.filter = "PutFilter"
    /\ flt' = [flt EXCEPT !.pc = "returned",
                          !.out = PutFilter_filter_request(flt.method, flt.body,
                                                           flt.params, flt.not_found)]
    /\ UNCHANGED <<registryVars, mtlsVars, clientVars, serverVars>>

\* ================================================================ runtime.rs
Conns == 1..MaxConns

\* A connection: not yet made ("none"), in the listener's backlog
\* ("pending"), or owned by its spawned task, which is in the TLS handshake
\* ("handshaking"), serving requests ("serving") or finished ("closed").
\* req is the request body the peer sends, in chunks; buf what the task
\* has buffered of it; arg the body route_request was called with; resp
\* what route_request returned; got the response the peer received; hs
\* whether the task's TLS handshake succeeded.
NoBody == <<>>
NoResp == [status |-> 0, headers |-> "", body |-> ""]
NoConn == [st |-> "none", end |-> "", req |-> NoBody, buf |-> NoBody, arg |-> NoBody,
           resp |-> NoResp, got |-> NoResp, hs |-> FALSE]

\* A task that has ended: its future is dropped with everything it held,
\* what is left is how it ended.
TaskEnded(e) == [NoConn EXCEPT !.st = "closed", !.end = e]

\* drive: TcpListener::bind(server_addr).await?
BindOk ==
    /\ drive_pc = "idle"
    /\ drive_pc' = IF use_tls THEN "load_certs" ELSE "accept"
    /\ UNCHANGED <<drive_res, use_tls, loaded, conn>>
    /\ UNCHANGED <<registryVars, mtlsVars, clientVars, filterVars, routes>>

BindErr ==
    /\ drive_pc = "idle"
    /\ drive_pc' = "returned"
    /\ drive_res' = "BindError"
    /\ UNCHANGED <<use_tls, loaded, conn>>
    /\ UNCHANGED <<registryVars, mtlsVars, clientVars, filterVars, routes>>

\* drive: load_certs(..)?  File::open(path)? and the map_err of certs(..)
\* both return an io::Error.
LoadCertsOk ==
    /\ drive_pc = "load_certs"
    /\ drive_pc' = "load_keys"
    /\ loaded' = Append(loaded, "certs")
    /\ UNCHANGED <<drive_res, use_tls, conn>>
    /\ UNCHANGED <<registryVars, mtlsVars, clientVars, filterVars, routes>>

LoadCertsErr ==
    /\ drive_pc = "load_certs"
    /\ drive_pc' = "returned"
    /\ drive_res' = "CertLoadError"
    /\ UNCHANGED <<use_tls, loaded, conn>>
    /\ UNCHANGED <<registryVars, mtlsVars, clientVars, filterVars, routes>>

\* drive: load_keys(..)?  The file may hold no PKCS#8 key: Ok(vec![]).
LoadKeysOk(nonempty) ==
    /\ drive_pc = "load_keys"
    /\ drive_pc' = "config"
    /\ loaded' = Append(loaded, IF nonempty THEN "keys" ELSE "no keys")
    /\ UNCHANGED <<drive_res, use_tls, conn>>
    /\ UNCHANGED <<registryVars, mtlsVars, clientVars, filterVars, routes>>

LoadKeysErr ==
    /\ drive_pc = "load_keys"
    /\ drive_pc' = "returned"
    /\ drive_res' = "KeyLoadError"
    /\ UNCHANGED <<use_tls, loaded, conn>>
    /\ UNCHANGED <<registryVars, mtlsVars, clientVars, filterVars, routes>>

\* drive: with_single_cert(certs, keys.remove(0)).map_err(..)?
\* Vec::remove(0) on an empty Vec panics; a key rustls cannot use is Err.
BuildConfig(key_ok) ==
    /\ drive_pc = "config"
    /\ IF loaded[Len(loaded)] = "no keys"
       THEN drive_pc' = "panicked" /\ UNCHANGED <<drive_res, loaded>>
       ELSE IF key_ok
       THEN drive_pc' = "accept" /\ loaded' = Append(loaded, "config")
            /\ UNCHANGED drive_res
       ELSE drive_pc' = "returned" /\ drive_res' = "TlsConfigError"
            /\ UNCHANGED loaded
    /\ UNCHANGED <<use_tls, conn>>
    /\ UNCHANGED <<registryVars, mtlsVars, clientVars, filterVars, routes>>

\* The listener exists from bind until drive ends.
Listening == drive_pc \in {"load_certs", "load_keys", "config", "accept"}

\* A client connects: the connection waits in the listener's backlog.
Arrive(c) ==
    /\ Listening
    /\ conn[c].st = "none"
    /\ conn' = [conn EXCEPT ![c].st = "pending"]
    /\ UNCHANGED <<drive_pc, drive_res, use_tls, loaded>>
    /\ UNCHANGED <<registryVars, mtlsVars, clientVars, filterVars, routes>>

\* drive is at listener.accept().await, at the top of either loop.
AcceptReadyInline == drive_pc = "accept" /\ \A d \in Conns : conn[d].st # "handshaking"

AcceptReady == drive_pc = "accept"

\* serve_tls_connection / serve_connection: tokio::spawn(..) of the task
\* that owns the stream, then Ok(()): the TLS handshake is the task's first
\* step, and a plaintext task serves at once.
spawn_task(c) == [conn EXCEPT ![c].st = IF use_tls THEN "handshaking" ELSE "serving"]

\* drive: listener.accept().await? returned a connection, the serve
\* function spawned its task and returned Ok(()), and the loop is back at
\* accept.
Accept(c) ==
    /\ AcceptReady
    /\ conn[c].st = "pending"
    /\ conn' = spawn_task(c)
    /\ UNCHANGED <<drive_pc, drive_res, use_tls, loaded>>
    /\ UNCHANGED <<registryVars, mtlsVars, clientVars, filterVars, routes>>

\* drive: listener.accept().await? returned Err: `?` returns it from drive.
AcceptErr ==
    /\ AcceptReady
    /\ drive_pc' = "returned"
    /\ drive_res' = "AcceptError"
    /\ UNCHANGED <<use_tls, loaded, conn>>
    /\ UNCHANGED <<registryVars, mtlsVars, clientVars, filterVars, routes>>

\* The task of c: acceptor.accept(tcp_stream).await? succeeded.
TlsAcceptOk(c) ==
    /\ conn[c].st = "handshaking"
    /\ conn' = [conn EXCEPT ![c].st = "serving", ![c].hs = TRUE]
    /\ UNCHANGED <<drive_pc, drive_res, use_tls, loaded>>
    /\ UNCHANGED <<registryVars, mtlsVars, clientVars, filterVars, routes>>

\* The task of c: acceptor.accept(tcp_stream).await? failed: `?` ends the
\* spawned task, whose JoinHandle nobody holds.
TlsAcceptErrPropagated(c) ==
    /\ conn[c].st = "handshaking"
    /\ conn' = [conn EXCEPT ![c] = TaskEnded("TlsHandshakeError")]
    /\ drive_pc' = "returned"
    /\ drive_res' = "TlsHandshakeError"
    /\ UNCHANGED <<use_tls, loaded>>
    /\ UNCHANGED <<registryVars, mtlsVars, clientVars, filterVars, routes>>

TlsAcceptErr(c) ==
    /\ conn[c].st = "handshaking"
    /\ conn' = [conn EXCEPT ![c] = TaskEnded("TlsHandshakeError")]
    /\ UNCHANGED <<drive_pc, drive_res, use_tls, loaded>>
    /\ UNCHANGED <<registryVars, mtlsVars, clientVars, filterVars, routes>>

\* The task of c: serve_connection(..).await returned Err, which is printed.
ServeErr(c) ==
    /\ conn[c].st = "serving"
    /\ conn' = [conn EXCEPT ![c] = TaskEnded("ConnectionError")]
    /\ UNCHANGED <<drive_pc, drive_res, use_tls, loaded>>
    /\ UNCHANGED <<registryVars, mtlsVars, clientVars, filterVars, routes>>

\* The task of c: serve_connection(..).await returned Ok: the peer is done.
ServeDone(c) ==
    /\ conn[c].st = "serving"
    /\ conn' = [conn EXCEPT ![c] = TaskEnded("Ok")]
    /\ UNCHANGED <<drive_pc, drive_res, use_tls, loaded>>
    /\ UNCHANGED <<registryVars, mtlsVars, clientVars, filterVars, routes>>

\* ---------------------------------------------------------------- handle_request
\* The request bodies a peer may send, as the chunks they arrive in.
Bodies == {<<>>, <<"a">>, <<"b", "c">>}

RespA == [status |-> 200, headers |-> "content-type: application/json", body |-> "A"]
RespB == [status |-> 404, headers |-> "content-type: application/json", body |-> "B"]
RespC == [status |-> 201, headers |-> "location: /users/42", body |-> "C"]

\* A route table: what the routes make of each request. The dispatcher
\* may fail on a request (a filter or handler returned Err).
RouteTables ==
    {[b \in Bodies |-> IF b = <<>> THEN [kind |-> "Ok", res |-> RespA]
                       ELSE IF b = <<"a">> THEN [kind |-> "Ok", res |-> RespB]
                       ELSE [kind |-> "Ok", res |-> RespC]],
     [b \in Bodies |-> IF b = <<>> THEN [kind |-> "Ok", res |-> RespB]
                       ELSE IF b = <<"a">> THEN [kind |-> "Ok", res |-> RespA]
                       ELSE [kind |-> "Err"]]}

\* rustserve::route_request(Request::from_parts(parts, &bytes[..]), routes)
route_request(body, table) ==
    IF body \in DOMAIN table THEN table[body] ELSE [kind |-> "Err"]

\* hyper read a request head on the connection of c and called the
\* service: handle_request starts with nothing buffered.
RequestHead(c, body) ==
    /\ conn[c].st = "serving"
    /\ conn' = [conn EXCEPT ![c] = [@ EXCEPT !.st = "reading", !.req = body, !.buf = NoBody,
                                             !.arg = NoBody, !.resp = NoResp, !.got = NoResp]]
    /\ UNCHANGED <<drive_pc, drive_res, use_tls, loaded>>
    /\ UNCHANGED <<registryVars, mtlsVars, clientVars, filterVars, routes>>

\* handle_request: body.collect().await? takes the next chunk.
BodyChunk(c) ==
    /\ conn[c].st = "reading"
    /\ Len(conn[c].buf) < Len(conn[c].req)
    /\ conn' = [conn EXCEPT ![c].buf = Append(@, conn[c].req[Len(conn[c].buf) + 1])]
    /\ UNCHANGED <<drive_pc, drive_res, use_tls, loaded>>
    /\ UNCHANGED <<registryVars, mtlsVars, clientVars, filterVars, routes>>

\* handle_request: body.collect().await? failed before the body was whole:
\* `?` returns the error to hyper, serve_connection ends with Err, the task
\* prints it and ends.
BodyReadErrAll(c) ==
    /\ conn[c].st = "reading"
    /\ conn[c].buf # conn[c].req
    /\ conn' = [d \in Conns |->
                   IF conn[d].st \in {"reading", "responding"}
                   THEN TaskEnded("BodyReadError")
                   ELSE conn[d]]
    /\ UNCHANGED <<drive_pc, drive_res, use_tls, loaded>>
    /\ UNCHANGED <<registryVars, mtlsVars, clientVars, filterVars, routes>>

BodyReadErr(c) ==
    /\ conn[c].st = "reading"
    /\ conn[c].buf # conn[c].req
    /\ conn' = [conn EXCEPT ![c] = TaskEnded("BodyReadError")]
    /\ UNCHANGED <<drive_pc, drive_res, use_tls, loaded>>
    /\ UNCHANGED <<registryVars, mtlsVars, clientVars, filterVars, routes>>

\* handle_request: collect() has returned, so the whole body is buffered.
BodyCompleteEarly(c) == TRUE

BodyComplete(c) == conn[c].buf = conn[c].req

\* handle_request: buf.copy_to_bytes(buf.remaining()) and
\* route_request(.., routes).await?: Err ends the task as above, Ok(res)
\* is returned to hyper with its body wrapped in Full.
Dispatch(c) ==
    /\ conn[c].st = "reading"
    /\ BodyComplete(c)
    /\ LET r == route_request(conn[c].buf, routes) IN
       conn' = [conn EXCEPT ![c] =
                   IF r.kind = "Ok"
                   THEN [@ EXCEPT !.st = "responding", !.arg = conn[c].buf, !.resp = r.res]
                   ELSE TaskEnded("DispatchError")]
    /\ UNCHANGED <<drive_pc, drive_res, use_tls, loaded>>
    /\ UNCHANGED <<registryVars, mtlsVars, clientVars, filterVars, routes>>

\* hyper writes the response the service returned on the connection of c;
\* the peer receives it and the connection waits for the next request.
WriteResponseOfAny(c) ==
    /\ conn[c].st = "responding"
    /\ \E d \in Conns :
           /\ conn[d].resp # NoResp
           /\ conn' = [conn EXCEPT ![c].st = "serving", ![c].got = conn[d].resp]
    /\ UNCHANGED <<drive_pc, drive_res, use_tls, loaded>>
    /\ UNCHANGED <<registryVars, mtlsVars, clientVars, filterVars, routes>>

WriteResponse(c) ==
    /\ conn[c].st = "responding"
    /\ conn' = [conn EXCEPT ![c].st = "serving", ![c].got = conn[c].resp]
    /\ UNCHANGED <<drive_pc, drive_res, use_tls, loaded>>
    /\ UNCHANGED <<registryVars, mtlsVars, clientVars, filterVars, routes>>

\* The write failed (the peer is gone): serve_connection ends with Err.
WriteResponseErr(c) ==
    /\ conn[c].st = "responding"
    /\ conn' = [conn EXCEPT ![c] = TaskEnded("ConnectionError")]
    /\ UNCHANGED <<drive_pc, drive_res, use_tls, loaded>>
    /\ UNCHANGED <<registryVars, mtlsVars, clientVars, filterVars, routes>>

\* ================================================================ specifications
\* The registry of the specification's example scenario.
ExampleValues == << <<"users", ServiceProfile_new("10.0.0.1:9001")>> >>

IdleMt == [pc |-> "idle", addr |-> "", file |-> [open |-> "missing", entries |-> <<>>],
           host |-> "", result |-> NoResult]

RegistryAtRest ==
    /\ values = ExampleValues
    /\ map = Registry_new(ExampleValues)
    /\ lk = [c \in Callers |-> IdleLookup]
MtlsAtRest == mt = IdleMt
ClientAtRest == call = IdleCall
ServerAtRest ==
    /\ drive_pc = "idle"
    /\ drive_res = ""
    /\ use_tls = TRUE
    /\ loaded = <<>>
    /\ conn = [c \in Conns |-> NoConn]
    /\ routes = CHOOSE t \in RouteTables : t[<<>>] = [kind |-> "Ok", res |-> RespA]
FilterAtRest == flt = IdleFilter

\* --- the registry under concurrent lookups
InitRegistry ==
    /\ values \in RegistryInputs
    /\ map = Registry_new(values)
    /\ lk = [c \in Callers |-> IdleLookup]
    /\ MtlsAtRest /\ ClientAtRest /\ ServerAtRest /\ FilterAtRest

NextRegistry ==
    \/ \E c \in Callers, n \in LookupNames : LookupCall(c, n)
    \/ \E c \in Callers : Lookup(c)
    \/ \E c \in Callers : LookupReturn(c)

SpecRegistry == InitRegistry /\ [][NextRegistry]_vars

\* --- Mtls::new on every chain file within the bound
InitMtls ==
    /\ mt \in {[pc |-> "called", addr |-> "10.0.0.1:9001", file |-> f, host |-> h,
                result |-> NoResult] : f \in FileStates, h \in DnsNames}
    /\ RegistryAtRest /\ ClientAtRest /\ ServerAtRest /\ FilterAtRest

NextMtls == MtlsNewCall

SpecMtls == InitMtls /\ [][NextMtls]_vars

\* --- one client at a time calling make_and_send_request
InitClient == RegistryAtRest /\ MtlsAtRest /\ ClientAtRest /\ ServerAtRest /\ FilterAtRest

NextClient ==
    \/ \E n \in LookupNames, m \in Methods, p \in Payloads : Start(n, m, p)
    \/ \E path \in CertPaths : CertPathOk(path)
    \/ CertPathErr
    \/ \E h \in HostHeaders : CreateRequestOk(h)
    \/ CreateRequestErr
    \/ ResolveAddr
    \/ ResolveAddrErr
    \/ \E f \in FileStates : MtlsNewStep(f)
    \/ TcpConnectOk
    \/ TcpConnectErr
    \/ ServerNameStep
    \/ \E srv \in Servers, io_ok \in BOOLEAN : TlsHandshake(srv, io_ok)
    \/ HttpHandshakeOk
    \/ HttpHandshakeErr
    \/ WriteRequestOk
    \/ WriteRequestErr
    \/ \E st \in Statuses : ReadHeadOk(st)
    \/ ReadHeadErr
    \/ \E b \in BodyKinds : CollectBodyOk(b)
    \/ CollectBodyErr
    \/ StatusBranch
    \/ CallReturn

SpecClient == InitClient /\ [][NextClient]_vars

\* --- the server: drive, the connections and their tasks
InitServer ==
    /\ drive_pc = "idle"
    /\ drive_res = ""
    /\ use_tls \in BOOLEAN
    /\ loaded = <<>>
    /\ conn = [c \in Conns |-> NoConn]
    /\ routes \in RouteTables
    /\ RegistryAtRest /\ MtlsAtRest /\ ClientAtRest /\ FilterAtRest

NextServer ==
    \/ BindOk
    \/ BindErr
    \/ LoadCertsOk
    \/ LoadCertsErr
    \/ \E nonempty \in BOOLEAN : LoadKeysOk(nonempty)
    \/ LoadKeysErr
    \/ \E key_ok \in BOOLEAN : BuildConfig(key_ok)
    \/ \E c \in Conns : Arrive(c)
    \/ \E c \in Conns : Accept(c)
    \/ AcceptErr
    \/ \E c \in Conns : TlsAcceptOk(c)
    \/ \E c \in Conns : TlsAcceptErr(c)
    \/ \E c \in Conns : ServeErr(c)
    \/ \E c \in Conns : ServeDone(c)

SpecServer == InitServer /\ [][NextServer]_vars

\* --- the filters: every call of either filter
InitFilter ==
    /\ flt \in FilterCalls \cup ChainCalls
    /\ RegistryAtRest /\ MtlsAtRest /\ ClientAtRest /\ ServerAtRest

NextFilter ==
    \/ PostFilterRequest
    \/ PutFilterRequest
    \/ DefaultFiltersRequest

SpecFilter == InitFilter /\ [][NextFilter]_vars

\* --- the server with the requests its tasks handle
NextServe ==
    \/ NextServer
    \/ \E c \in Conns, b \in Bodies : RequestHead(c, b)
    \/ \E c \in Conns : BodyChunk(c)
    \/ \E c \in Conns : BodyReadErr(c)
    \/ \E c \in Conns : Dispatch(c)
    \/ \E c \in Conns : WriteResponse(c)
    \/ \E c \in Conns : WriteResponseErr(c)

SpecServe == InitServer /\ [][NextServe]_vars

\* The runtime polls the drive task whenever the listener has a connection
\* ready, so a connection left in the backlog while drive is at accept is
\* taken. Nothing makes a peer finish a handshake or a request: the tasks
\* of the connections carry no fairness.
FairServer == SpecServer /\ \A c \in Conns : WF_vars(Accept(c))

\* ================================================================ properties
Registered == {values[i][1] : i \in DOMAIN values}
KeysUnique == \A i, j \in DOMAIN values : values[i][1] = values[j][1] => i = j

\* C1: a lookup of a name that was not passed to Registry::new ends with a
\* typed "unknown service" error value returned to the caller, not a panic.
C1_UnknownServiceIsTypedError ==
    \A c \in Callers :
        (lk[c].pc = "done" /\ lk[c].name \notin Registered)
            => lk[c].result = Err("UnknownService")

\* C2: with unique keys, every registered name looks up to the profile it
\* was registered with, whatever lookups the callers have made and in
\* whatever order: the map still answers as it was built, and every lookup
\* of a registered name that has completed returned the registered address.
C2_RegisteredLookupIsStable ==
    KeysUnique =>
        /\ \A i \in DOMAIN values :
               lookup(map, values[i][1]) = [kind |-> "Ok", profile |-> values[i][2]]
        /\ \A c \in Callers, i \in DOMAIN values :
               (lk[c].pc = "done" /\ lk[c].name = values[i][1])
                   => /\ lk[c].result.kind = "Ok"
                      /\ ServiceProfile_addr(lk[c].result.profile)
                             = ServiceProfile_addr(values[i][2])

\* C2 witness: two registered names, and both callers have completed a
\* lookup of a registered name.
C2_Witness ==
    /\ KeysUnique
    /\ Len(values) = 2
    /\ \A c \in Callers : lk[c].pc = "done" /\ lk[c].name \in Registered

LastStep == IF call.log = <<>> THEN [step |-> "", ok |-> FALSE] ELSE call.log[Len(call.log)]
\* make_and_send_request has branched on the status of a whole response.
Responded == call.pc = "done" /\ LastStep = [step |-> "collect", ok |-> TRUE]

\* C3: make_and_send_request returns a typed response only for status 200;
\* for any other status it returns an error, and a decode error when the
\* body is not parseable as an error payload.
C3_OnlyStatus200Succeeds ==
    /\ (call.pc = "done" /\ call.result.kind = "Ok") => call.response.status = StatusOk
    /\ (Responded /\ call.response.status # StatusOk)
           => /\ call.result.kind = "Err"
              /\ call.response.body = "garbage" => call.result = Err("ResponseDecodeError")

\* C3 witness: a 201 response with an unparseable body is a decode error.
C3_Witness ==
    /\ Responded
    /\ call.response.status \in (200..299) \ {StatusOk}
    /\ call.response.body = "garbage"
    /\ call.result = Err("ResponseDecodeError")

\* The steps the ordering claim names, in the order it names them; the
\* response is received by recv_head and then collect.
StepOrder == <<"cert_path", "addr", "tcp_connect", "tls_handshake", "send_request",
               "recv_head", "collect">>
IsOrderedStep(e) == e.step \in Range(StepOrder)
OrderedLog == SelectSeq(call.log, IsOrderedStep)

\* C4: within one call the steps start in the order certificate path,
\* address, TCP connect, TLS handshake, send, receive, each at most once
\* and each only after the one before it completed successfully.
C4_StepsInOrder ==
    /\ Len(OrderedLog) <= Len(StepOrder)
    /\ \A i \in DOMAIN OrderedLog :
           /\ OrderedLog[i].step = StepOrder[i]
           /\ i < Len(OrderedLog) => OrderedLog[i].ok

\* C4 witness: a call that went through every step and returned a response.
C4_Witness ==
    /\ call.pc = "done"
    /\ call.result.kind = "Ok"
    /\ Len(OrderedLog) = Len(StepOrder)

Started(step) == \E i \in DOMAIN call.log : call.log[i].step = step
Completed(step) == \E i \in DOMAIN call.log : call.log[i].step = step /\ call.log[i].ok
ServerTrusted ==
    /\ call.srv.cert \in Range(call.mtls.root_cert_store)
    /\ call.srv.name = call.request.host

\* C5: the request is written only after a TLS handshake that succeeded
\* against a server whose certificate is among the anchors loaded for this
\* call and whose name is the request's host header; a handshake with any
\* other server ends the call with a handshake error and nothing written.
C5_NoSendWithoutVerifiedHandshake ==
    /\ (Started("send_request") \/ call.wire # <<>>)
           => Completed("tls_handshake") /\ ServerTrusted
    /\ (Started("tls_handshake") /\ ~ServerTrusted)
           => /\ call.pc = "done"
              /\ call.result = Err("TlsHandshakeError")
              /\ call.wire = <<>>
              /\ ~Started("send_request")

\* C5 witness: the bundle holds a certificate, the server presented
\* another one, and the call ended with the handshake error.
C5_Witness ==
    /\ Started("tls_handshake")
    /\ call.mtls.root_cert_store # <<>>
    /\ call.srv.cert \notin Range(call.mtls.root_cert_store)
    /\ call.srv.name = call.request.host
    /\ call.result = Err("TlsHandshakeError")

Attempts(step) == Cardinality({i \in DOMAIN call.log : call.log[i].step = step})
NetworkSteps == {"tcp_connect", "tls_handshake", "send_request", "recv_head", "collect"}

\* C6: one call makes at most one TCP connect attempt, one TLS handshake
\* and one send, and a failed connect, handshake, send or receive is the
\* call's last step: the call returns an error.
C6_NoRetry ==
    /\ \A s \in {"tcp_connect", "tls_handshake", "send_request"} : Attempts(s) <= 1
    /\ \A i \in DOMAIN call.log :
           (call.log[i].step \in NetworkSteps /\ ~call.log[i].ok)
               => /\ i = Len(call.log)
                  /\ call.pc = "done"
                  /\ call.result.kind = "Err"

\* C6 witness: the connect failed and the call returned the error.
C6_Witness ==
    /\ LastStep = [step |-> "tcp_connect", ok |-> FALSE]
    /\ call.pc = "done"
    /\ call.result = Err("ConnectionError")

\* C7: Mtls::new on a file that exists and holds no parseable certificate
\* returns a certificate parse error, and never a bundle without anchors.
C7_NoCertificateIsParseError ==
    /\ (mt.pc = "done" /\ mt.file.open = "ok" /\ ValidCerts(mt.file) = {})
           => mt.result = Err("CertificateParseError")
    /\ (mt.pc = "done" /\ mt.result.kind = "Ok")
           => mt.result.mtls.root_cert_store # <<>>

\* C8: Mtls::new on a file holding at least one valid certificate, with
\* or without invalid entries, succeeds with as many anchors as the file
\* has valid certificates.
C8_AnchorsAreTheValidCertificates ==
    (mt.pc = "done" /\ mt.file.open = "ok" /\ ValidCerts(mt.file) # {})
        => /\ mt.result.kind = "Ok"
           /\ Len(mt.result.mtls.root_cert_store) = Cardinality(ValidCerts(mt.file))

Accepted(c) == conn[c].st \in {"handshaking", "serving", "reading", "responding", "closed"}
AcceptFailed == drive_pc = "returned" /\ drive_res = "AcceptError"

\* drive took a connection from the backlog: its task was spawned in the
\* state the mode starts in, and drive is at accept again in the same step.
HandedToTask ==
    \A c \in Conns :
        (conn[c].st = "pending" /\ conn'[c].st # "pending")
            => /\ conn'[c].st = IF use_tls THEN "handshaking" ELSE "serving"
               /\ drive_pc' = "accept"

\* C9 as stated: once drive is at accept, a connection in the backlog is
\* eventually accepted, whatever the earlier connections do.
C9_PendingIsEventuallyAccepted ==
    \A c \in Conns : (conn[c].st = "pending" /\ drive_pc = "accept") ~> Accepted(c)

\* C9 amended: an accepted connection is handed to its spawned task with
\* drive back at accept in the same step, and a connection in the backlog
\* while drive is at accept is eventually accepted unless accept itself
\* fails and drive returns that error; no connection stalled in handshake
\* or serving delays it.
C9_PendingIsAcceptedUnlessAcceptFails ==
    /\ [][HandedToTask]_vars
    /\ \A c \in Conns :
           (conn[c].st = "pending" /\ drive_pc = "accept") ~> (Accepted(c) \/ AcceptFailed)

\* C9 witness: in TLS mode two connections are stalled, one in handshake
\* and one serving, the third has been accepted, and drive is at accept.
C9_Witness ==
    /\ use_tls
    /\ drive_pc = "accept"
    /\ conn[1].st = "handshaking"
    /\ conn[2].st = "serving"
    /\ Accepted(3)

\* C10 as stated: drive returns only on bind failure.
C10_ReturnsOnlyOnBindFailure ==
    drive_pc = "returned" => drive_res = "BindError"

SetupErrors == {"CertLoadError", "KeyLoadError", "TlsConfigError"}

\* C10 amended: drive returns only with an error: the bind failure, before
\* anything is loaded or accepted; in TLS mode a failure to load the
\* certificates or keys or to build the TLS configuration, before any
\* connection is accepted; or a failed accept. The accept loop ends in no
\* other way: the only step that takes drive out of accept is the failed
\* accept, which changes no connection.
C10_ReturnsOnlyOnBindSetupOrAcceptFailure ==
    /\ [](drive_pc = "returned" =>
            /\ drive_res \in {"BindError", "AcceptError"} \cup SetupErrors
            /\ drive_res = "BindError" =>
                   loaded = <<>> /\ \A c \in Conns : conn[c].st = "none"
            /\ drive_res \in SetupErrors =>
                   use_tls /\ \A c \in Conns : ~Accepted(c))
    /\ [][(drive_pc = "accept" /\ drive_pc' # "accept")
              => (drive_pc' = "returned" /\ drive_res' = "AcceptError" /\ conn' = conn)]_vars

\* C10 witness: a connection's handshake failed, the loop went on, and a
\* later accept failed: drive returned the accept error.
C10_Witness ==
    /\ AcceptFailed
    /\ \E c \in Conns : conn[c].st = "closed" /\ conn[c].end = "TlsHandshakeError"
    /\ \E c \in Conns : conn[c].st = "serving"

\* ---------------------------------------------------------------- the tasks
\* The task of c ends with a failure in this step.
TaskFails(c) ==
    /\ conn[c].st # "closed"
    /\ conn'[c].st = "closed"
    /\ conn'[c].end # "Ok"

\* C11: a failure inside the task of one connection (TLS handshake, HTTP
\* protocol, body read or dispatcher error) ends that task only: drive
\* stays where it was, in its accept loop, and every other connection's
\* task is left as it was.
C11_TaskFailureEndsOnlyThatTask ==
    [][\A c \in Conns :
          TaskFails(c) =>
              /\ drive_pc' = drive_pc
              /\ drive_res' = drive_res
              /\ \A d \in Conns \ {c} : conn'[d] = conn[d]]_vars

\* C11 witness: under TLS one task ended on a dispatcher error and another
\* on a body-read error, while drive is in accept and a third connection
\* is being answered.
C11_Witness ==
    /\ use_tls
    /\ drive_pc = "accept"
    /\ \E c, d, e \in Conns :
           /\ conn[c].st = "closed" /\ conn[c].end = "DispatchError"
           /\ conn[d].st = "closed" /\ conn[d].end = "BodyReadError"
           /\ conn[e].st = "responding"

Dispatches(c) ==
    /\ conn[c].st = "reading"
    /\ \/ conn'[c].st = "responding"
       \/ conn'[c].st = "closed" /\ conn'[c].end = "DispatchError"

\* C13: the dispatcher is called only once the whole request body is
\* buffered, and under TLS only after the task's handshake; it is given
\* that body and the shared route table; the response written is the one
\* it returned; and no step changes the route table.
C13_DispatchAfterWholeBody ==
    [][/\ routes' = routes
       /\ \A c \in Conns :
             /\ Dispatches(c) =>
                   /\ conn[c].buf = conn[c].req
                   /\ use_tls => conn[c].hs
                   /\ conn'[c].st = "responding" =>
                          /\ conn'[c].arg = conn[c].req
                          /\ conn'[c].resp = route_request(conn[c].req, routes).res
             /\ (conn[c].st = "responding" /\ conn'[c].st = "serving") =>
                   conn'[c].got = conn[c].resp]_vars

\* C13 witness: under TLS a request whose body came in two chunks has been
\* dispatched with both, and a request on another connection has only its
\* first chunk buffered.
C13_Witness ==
    /\ use_tls
    /\ \E c, d \in Conns :
           /\ conn[c].st = "responding" /\ Len(conn[c].arg) = 2 /\ conn[c].hs
           /\ conn[d].st = "reading" /\ Len(conn[d].buf) = 1 /\ Len(conn[d].req) = 2

\* ---------------------------------------------------------------- TLS setup
\* drive ended before it had a TLS configuration: the certificate file or
\* the key file was missing, invalid or without a usable key.
TlsMaterialUnusable ==
    /\ use_tls
    /\ drive_pc \in {"returned", "panicked"}
    /\ Len(loaded) > 0 \/ drive_res \in {"CertLoadError"}
    /\ "config" \notin Range(loaded)

\* C14: with TLS enabled, a certificate or key file that is missing,
\* invalid or without a usable key makes drive return a configuration
\* error to its caller (drive does not crash), and no connection has been
\* accepted.
C14_UnusableTlsMaterialIsReturnedError ==
    TlsMaterialUnusable =>
        /\ drive_pc = "returned"
        /\ drive_res \in SetupErrors
        /\ \A c \in Conns : ~Accepted(c)

\* ---------------------------------------------------------------- filters
\* filter f has returned from a call.
Filtered(f) == flt.pc = "returned" /\ flt.filter = f

PassedUnchanged == flt.out = Pass(flt.method, flt.body, flt.params)

C17_PostPassesOnlyWithId ==
    (Filtered("PostFilter") /\ flt.method = "POST" /\ flt.out.kind = "Pass")
        => IdKey \in DOMAIN flt.params

\* C18, as documented on PutFilter: a PUT passes only if its params do not
\* contain the ID param.
C18_PutPassesOnlyWithoutId ==
    (Filtered("PutFilter") /\ flt.method = "PUT" /\ flt.out.kind = "Pass")
        => IdKey \notin DOMAIN flt.params

\* ---------------------------------------------------------------- the request
Failed(step) == \E i \in DOMAIN call.log : call.log[i].step = step /\ ~call.log[i].ok

\* C19 as stated: the request is built only after both the certificate
\* path and the target address are resolved, and a call whose address
\* resolution failed has not run create_request.
C19_RequestBuiltAfterAddress ==
    /\ Started("create_request") => Completed("cert_path") /\ Completed("addr")
    /\ Failed("addr") => ~Started("create_request")

\* C19 amended: the request is built after the certificate path is
\* resolved and before the target address is: address resolution starts
\* only once the request is built, so when it fails the request has been
\* built, and then no trust bundle is loaded and no connection is opened.
C19_RequestBuiltBeforeAddress ==
    /\ Started("create_request") => Completed("cert_path")
    /\ Started("addr") => Completed("create_request") /\ call.request # NoRequest
    /\ Failed("addr") => ~Started("mtls_new") /\ ~Started("tcp_connect") /\ call.wire = <<>>

\* C19 witness: address resolution failed in a call whose request is built.
C19_Witness ==
    /\ Failed("addr")
    /\ Completed("create_request")
    /\ call.request.body \in Payloads

\* The methods that only read: GET and HEAD.
ReadOnlyMethods == {"GET", "HEAD"}

\* C20: every request the client wrote has an empty body if the
\* controller's method is read-only, whatever payload the request was
\* built with, and the serialized payload as its body otherwise.
C20_ReadOnlyMethodsSendNoBody ==
    \A i \in DOMAIN call.wire :
        call.wire[i].body = IF call.method \in ReadOnlyMethods THEN "" ELSE call.request.body

\* ---------------------------------------------------------------- short circuit
\* The steps before the TCP connection, and the steps that make it.
SetupSteps == {"cert_path", "create_request", "addr", "mtls_new"}
ConnectSteps == {"tcp_connect", "server_name", "tls_handshake", "http_handshake"}

\* The errors each of these steps returns.
StepErrors ==
    [s \in SetupSteps \cup ConnectSteps |->
        CASE s = "cert_path" -> {"CertPathError"}
          [] s = "create_request" -> {"RequestBuildError"}
          [] s = "addr" -> {"AddrError"}
          [] s = "mtls_new" -> {"HeaderToStrError", "CertificateLoadError"}
          [] s = "tcp_connect" -> {"ConnectionError"}
          [] s = "server_name" -> {"InvalidDnsName"}
          [] s = "tls_handshake" -> {"TlsHandshakeError"}
          [] s = "http_handshake" -> {"TransportError"}]

\* C21: a failed step is the call's last step and the call is over; when
\* the step returned an error, the call returns that error. After a
\* failure of certificate-path resolution, request building, address
\* resolution or trust-bundle loading no TCP connection was opened; after
\* a failed connect or handshake no request was sent and no response
\* awaited.
C21_FailureShortCircuits ==
    /\ \A i \in DOMAIN call.log :
           ~call.log[i].ok =>
               /\ i = Len(call.log)
               /\ call.pc = "done"
               /\ call.result.kind \in {"Err", "Panic"}
               /\ (call.result.kind = "Err" /\ call.log[i].step \in DOMAIN StepErrors)
                      => call.result.err \in StepErrors[call.log[i].step]
    /\ \A s \in SetupSteps :
           Failed(s) => ~Started("tcp_connect") /\ call.srv = NoServer
    /\ \A s \in SetupSteps \cup ConnectSteps :
           Failed(s) => /\ call.wire = <<>>
                        /\ ~Started("send_request")
                        /\ ~Started("recv_head")

\* C21 witness: the certificate file is missing: the trust bundle failed
\* to load after the address was resolved, and the call returned that
\* error.
C21_Witness ==
    /\ LastStep = [step |-> "mtls_new", ok |-> FALSE]
    /\ Completed("addr")
    /\ call.pc = "done"
    /\ call.result = Err("CertificateLoadError")

\* ---------------------------------------------------------------- default_filters
Reverse(seq) == [i \in 1..Len(seq) |-> seq[Len(seq) + 1 - i]]

PutRejects == flt.method = "PUT" /\ IdKey \notin DOMAIN flt.params
PostRejects == flt.method = "POST" /\ IdKey \in DOMAIN flt.params

====
